---- MODULE Spec2Model ----
(***************************************************************************)
(* CodeBox index-and-search engine: the auto-sync worker, the columnar     *)
(* store and its writers, the indexer pipeline and the embedder, each as a *)
(* state machine over its own variables.  Every subsystem has its own      *)
(* specification; the variables of the other subsystems stay at their      *)
(* initial values in it.                                                   *)
(***************************************************************************)
EXTENDS Integers, Sequences, FiniteSets, TLC

(***************************************************************************)
(* Bounds of the model.                                                    *)
(***************************************************************************)
\* writes made to the watched files in one behaviour
MaxRev == 2
\* last instant of the clock (seconds)
MaxTime == 4
\* the largest auto_sync.batch_size of the project configuration
BatchSize == 2
\* files the walker enumerates for one index run
MaxFiles == 3
\* chunks the chunker returns for one file
MaxChunks == 2
\* embedding_batch_size of the active profile
EmbeddingBatchSize == 2
\* chunks or texts of one add_chunks or generate_embeddings call
MaxTexts == 2
\* rows of the table of the store
MaxStoreRows == 3
\* documents the store can return to one search
MaxDocs == 3
\* lines of a file given to the chunker
MaxLines == 4
\* nodes the parser extracts from a file
MaxNodes == 2

(***************************************************************************)
(* Program constants.                                                      *)
(***************************************************************************)
\* AppConfig.AUTO_SYNC_DEBOUNCE_SECONDS (default 2.0)
AUTO_SYNC_DEBOUNCE_SECONDS == 2
\* embedding.default_dim of the default configuration
EMBEDDING_DIM == 384
\* the context lines _semantic_chunk adds on each side of a node
overlap_lines == 3

\* the watched files (both pass the watch filter)
Files == {"a.py", "b.py"}

\* ChangeEvent
CREATED == "created"
MODIFIED == "modified"
DELETED == "deleted"

VARIABLES
    \* ---- auto-sync worker, watcher thread, file system, store ----
    now,          \* datetime.now(), in seconds
    fs,           \* file system: file -> [rev, kind]
    table,        \* rows of the project's table
    pending,      \* AutoSyncWorker.pending_changes, in insertion order
    wpc,          \* position of the worker thread in run()
    batch_size,   \* AutoSyncWorker.batch_size
    isRunning,    \* AutoSyncWorker._is_running
    observer,     \* the watchdog Observer: "none", "started", "stopped"
    iterKeys,     \* keys of pending_changes when the tick began to iterate it
    cutoff,       \* cutoff of the tick in progress
    batch,        \* rest of the tick's batch: <<file, change_type>>
    plan,         \* what the _update_file in flight decided to do
    readContent,  \* content read by the _update_file in flight
    \* history of the behaviour, read by the properties only
    stopCalled,   \* stop() has been called
    recon,        \* file -> number of _update_file calls begun
    dirty,        \* file -> an event was queued after the last read of the file
    evFirst,      \* file -> time of the first event queued for it (-1: none)
    evLast,       \* file -> time of the last event queued for it (-1: none)
    reconEarly,   \* files whose _update_file began less than debounce after their last event
    lastUpd,      \* the last completed _update_file: [file, ok, content, before, failed]
    \* ---- the threads that write one project's store ----
    thread,       \* role -> "off", "on", "stopping"
    wop,          \* role -> the VectorDatabase method the role is in
    wpos,         \* role -> its position in that method
    rlock,        \* VectorDatabase instance -> the role holding its _lock
    upd,          \* the store calls of the _update_file in flight: "none", "delete", "deleted", "add"
    \* ---- CoreIndexer.index ----
    ipc,          \* position in index(): "init", "loop", "final", "returned", "raised"
    nFiles,       \* len(files)
    idx,          \* i, the index of the next file of the loop
    all_chunks,   \* len(all_chunks), the chunks buffered
    total_chunks, \* the local total_chunks
    result,       \* the IndexingResult
    dbRows,       \* rows of the store's table
    ftsRows,      \* rows the FTS index covered when it was last rebuilt
    is_cancelled, \* IndexerThread._is_cancelled, read by should_cancel()
    progress,     \* number of on_progress calls
    fileStatus,   \* per file begun: the statuses given to on_file_processed
    fileRaised,   \* per file begun: an error was raised while handling it
    cancelSeenAt, \* the index at which should_cancel() returned true (-1: never)
    \* ---- EmbeddingGenerator and VectorDatabase.add_chunks ----
    stpc,         \* "new" before the embedder and the store are constructed, then "ready"
    model,        \* EmbeddingGenerator.model: 0 for None, else the dimension of the model
    embedding_dim,\* VectorDatabase.embedding_dim, the dimension of the table
    storeVecs,    \* the vector length of every persisted row, in insertion order
    lastAdd,      \* the last add_chunks call: its arguments and what it did
    lastEmb,      \* the last generate_embeddings call: its argument and its value
    \* ---- CodeChunker ----
    chpc,         \* "new", "input" once a file is chosen, "done" after chunk_code
    chLines,      \* content.split('\n'): the lines of the file
    chNodes,      \* the nodes parse_file extracted, in traversal order
    chSize,       \* CodeChunker.chunk_size
    chOverlap,    \* CodeChunker.overlap
    chOut,        \* the chunks chunk_code returned
    \* ---- search requests ----
    spc,          \* position of the request: "idle", "validate", "init", "dispatch", "done"
    sreq,         \* the request: [entry, query, mode, limit]
    sOpened,      \* the request has opened the store
    sLoaded,      \* the request has loaded the embedding model
    sRan,         \* the search the engine ran for the request ("none": none)
    sOutcome,     \* "none", "ValueError" or "results"
    \* ---- file filters ----
    fpc,          \* "new": no path chosen yet; "ready": a path is under the project root
    fPath,        \* the path, a sequence of characters
    fLangs,       \* AutoSyncWorker.enabled_languages
    fLangMap,     \* AppConfig.SUPPORTED_LANGUAGES, or NoAttribute
    fQueued,      \* "none", or whether _on_file_change queued the event: "yes", "no"
    fWalked,      \* "none", or whether _find_files enumerated the path: "yes", "no"
    \* ---- the loop of _sliding_window_chunk ----
    swpc,         \* "new", "loop" (at the while test) or "done" (returned)
    swLines,      \* lines
    swSize,       \* CodeChunker.chunk_size
    swOverlap,    \* CodeChunker.overlap
    swOffset,     \* start_line_offset
    swI,          \* i
    swOut,        \* chunks
    \* ---- hybrid search ----
    hpc,          \* "idle", "fetch" (lists requested), "fuse" (lists returned), "done"
    hLimit,       \* limit
    hK,           \* adaptive_k of the query
    hFetch,       \* fetch_limit
    hVec,         \* vector_results, the ids in rank order
    hKey,         \* keyword_results, the ids in rank order
    hBoost,       \* symbol boost of every document, in units of 0.05
    hFused,       \* the ids of the list _rrf_fusion returned
    \* ---- cross-encoder re-ranking ----
    rpc,          \* "new", "called" or "done"
    rResults,     \* results, the ids in order
    rEnabled,     \* CrossEncoderReranker._enabled
    rAvailable,   \* the cross-encoder model can be loaded
    rTopK,        \* AppConfig.RERANK_TOP_K
    rScores,      \* the score model.predict gives every document
    rFails,       \* model.predict raises
    rOut,         \* the list rerank returned
    \* ---- opening a project's store ----
    cfgDim,       \* AppConfig.EMBEDDING_DIM, 0 for None
    vdbImported,  \* app.search.vector_db has been imported
    defaultDim,   \* the default of the embedding_dim parameter, 0 for None
    tblDim,       \* list size of the vector column of the table, 0: no table
    tblRows,      \* rows persisted in the table
    lastOpen,     \* the last open for search or stats
    \* ---- the main window and its auto-sync worker ----
    gpc,          \* "new", "open" or "closed"
    gProject,     \* project_manager has a current project path
    gEnabled,     \* AppConfig.get_auto_sync_enabled()
    gWorker,      \* the window's worker: ref, 0 for None; running, the ids of
                  \* the AutoSyncWorker threads that run; created, their count
    gTimers,      \* pending QTimer.singleShot(500, _start_auto_sync)
    gIndexing     \* the indexer thread is running

syncVars == <<now, fs, table, pending, wpc, batch_size, isRunning, observer, iterKeys, cutoff,
              batch, plan, readContent, stopCalled, recon, dirty,
              evFirst, evLast, reconEarly, lastUpd>>

wrVars == <<thread, wop, wpos, rlock, upd>>

idxVars == <<ipc, nFiles, idx, all_chunks, total_chunks, result, dbRows, ftsRows,
             is_cancelled, progress, fileStatus, fileRaised, cancelSeenAt>>

stVars == <<stpc, model, embedding_dim, storeVecs, lastAdd, lastEmb>>

chVars == <<chpc, chLines, chNodes, chSize, chOverlap, chOut>>

seVars == <<spc, sreq, sOpened, sLoaded, sRan, sOutcome>>

flVars == <<fpc, fPath, fLangs, fLangMap, fQueued, fWalked>>

swVars == <<swpc, swLines, swSize, swOverlap, swOffset, swI, swOut>>

hyVars == <<hpc, hLimit, hK, hFetch, hVec, hKey, hBoost, hFused>>

rrVars == <<rpc, rResults, rEnabled, rAvailable, rTopK, rScores, rFails, rOut>>

opVars == <<cfgDim, vdbImported, defaultDim, tblDim, tblRows, lastOpen>>

guVars == <<gpc, gProject, gEnabled, gWorker, gTimers, gIndexing>>

\* the variables of the later sections
extVars == <<chVars, seVars, flVars, swVars, hyVars, rrVars, opVars, guVars>>

vars == <<syncVars, wrVars, idxVars, stVars, extVars>>

(***************************************************************************)
(* File contents and the chunker, as the auto-sync worker sees them.       *)
(***************************************************************************)
Absent == [rev |-> 0, kind |-> "absent"]

IsAbsent(content) == content.kind = "absent"

\* what a write can leave in a file: source text that chunks, or a file
\* larger than AppConfig.MAX_FILE_SIZE
Kinds == {"code", "big"}

\* start lines of the chunks the chunker returns for a revision: the second
\* revision of a file has one chunk more than the first
StartLines(content) ==
    IF IsAbsent(content) THEN {}
    ELSE IF content.rev % 2 = 1 THEN {0} ELSE {0, 8}

\* CodeChunker.chunk_code followed by chunk.to_dict(): the rows of a file
chunk_code(f, content) ==
    {[file_path |-> f, start_line |-> s, rev |-> content.rev] : s \in StartLines(content)}

RowsOf(f) == {r \in table : r.file_path = f}

(***************************************************************************)
(* VectorDatabase, as used by one writer.                                  *)
(***************************************************************************)
\* delete_by_file: the exception of table.delete is logged and swallowed
delete_by_file(t, f, deleteFails) ==
    IF deleteFails THEN t ELSE {r \in t : r.file_path # f}

\* add_chunks with matching vectors: one table.add
add_chunks(t, rows) == t \cup rows

(***************************************************************************)
(* pending_changes: a dict, so an ordered map.                             *)
(***************************************************************************)
PendingKeys == {pending[i].file : i \in DOMAIN pending}

\* self.pending_changes[rel_path] = (change_type, datetime.now())
Upsert(p, f, ct, ts) ==
    IF \E i \in DOMAIN p : p[i].file = f
    THEN [i \in DOMAIN p |->
            IF p[i].file = f THEN [file |-> f, type |-> ct, ts |-> ts] ELSE p[i]]
    ELSE Append(p, [file |-> f, type |-> ct, ts |-> ts])

\* self.pending_changes.pop(file_path, None)
Pop(p, f) == SelectSeq(p, LAMBDA e : e.file # f)

\* a batch that takes every ready file
TakeAll(s, n) == s

\* ready_files[:self.batch_size]
Take(s, n) == SubSeq(s, 1, IF Len(s) < n THEN Len(s) ELSE n)

NoUpd == [file |-> "", ok |-> FALSE, content |-> Absent, before |-> {}, failed |-> FALSE]

SyncInit ==
    /\ now = 0
    /\ fs = [f \in Files |-> Absent]
    /\ table = {}
    /\ pending = <<>>
    /\ wpc = "idle"
    /\ batch_size = 1
    /\ isRunning = FALSE
    /\ observer = "none"
    /\ iterKeys = {}
    /\ cutoff = 0
    /\ batch = <<>>
    /\ plan = "none"
    /\ readContent = Absent
    /\ stopCalled = FALSE
    /\ recon = [f \in Files |-> 0]
    /\ dirty = [f \in Files |-> FALSE]
    /\ evFirst = [f \in Files |-> -1]
    /\ evLast = [f \in Files |-> -1]
    /\ reconEarly = {}
    /\ lastUpd = NoUpd

notSync == <<wrVars, idxVars, stVars, extVars>>

(***************************************************************************)
(* The clock, the file system and the watcher thread.                      *)
(***************************************************************************)
\* the clock counts from the start of the worker and is read by nothing
\* once the worker has ended
Tick ==
    /\ wpc \notin {"idle", "exited", "crashed"}
    /\ now < MaxTime
    /\ now' = now + 1
    /\ UNCHANGED <<fs, table, pending, wpc, isRunning, observer, iterKeys, cutoff,
                   batch, plan, readContent, stopCalled, recon, dirty, evFirst,
                   evLast, reconEarly, lastUpd>>
    /\ UNCHANGED <<batch_size, notSync>>

\* FileChangeHandler.on_* -> AutoSyncWorker._on_file_change, on the watcher
\* thread; nothing is delivered unless the observer is running
_on_file_change(f, change_type) ==
    IF observer = "started"
    THEN /\ pending' = Upsert(pending, f, change_type, now)
         /\ dirty' = [dirty EXCEPT ![f] = TRUE]
         /\ evFirst' = [evFirst EXCEPT ![f] = IF @ = -1 THEN now ELSE @]
         /\ evLast' = [evLast EXCEPT ![f] = now]
    ELSE UNCHANGED <<pending, dirty, evFirst, evLast>>

\* the writes made to the files of the project so far
RECURSIVE SumRev(_)
SumRev(S) ==
    IF S = {} THEN 0
    ELSE LET f == CHOOSE x \in S : TRUE IN fs[f].rev + SumRev(S \ {f})

Writes == SumRev(Files)

\* a program writes the file; the watcher reports created or modified
FsWrite(f, kind) ==
    /\ Writes < MaxRev
    /\ now + AUTO_SYNC_DEBOUNCE_SECONDS <= MaxTime
    /\ fs' = [fs EXCEPT ![f] = [rev |-> @.rev + 1, kind |-> kind]]
    /\ _on_file_change(f, IF IsAbsent(fs[f]) THEN CREATED ELSE MODIFIED)
    /\ UNCHANGED <<now, table, wpc, isRunning, observer, iterKeys, cutoff, batch,
                   plan, readContent, stopCalled, recon, reconEarly, lastUpd>>
    /\ UNCHANGED <<batch_size, notSync>>

\* a program removes the file; the watcher reports deleted
FsDelete(f) ==
    /\ ~IsAbsent(fs[f])
    /\ now + AUTO_SYNC_DEBOUNCE_SECONDS <= MaxTime
    /\ fs' = [fs EXCEPT ![f] = [rev |-> @.rev, kind |-> "absent"]]
    /\ _on_file_change(f, DELETED)
    /\ UNCHANGED <<now, table, wpc, isRunning, observer, iterKeys, cutoff, batch,
                   plan, readContent, stopCalled, recon, reconEarly, lastUpd>>
    /\ UNCHANGED <<batch_size, notSync>>

(***************************************************************************)
(* AutoSyncWorker: start(), stop() and the thread's run().                 *)
(***************************************************************************)
\* MainWindow._start_auto_sync: the worker is constructed with the configured
\* batch size and QThread.start() is called
Start(configured) ==
    /\ wpc = "idle"
    /\ wpc' = "starting"
    /\ batch_size' = configured
    /\ UNCHANGED <<now, fs, table, pending, isRunning, observer, iterKeys, cutoff,
                   batch, plan, readContent, stopCalled, recon, dirty, evFirst,
                   evLast, reconEarly, lastUpd>>
    /\ UNCHANGED notSync

\* AutoSyncWorker.stop(), called from the GUI thread
stop ==
    /\ wpc # "idle"
    /\ ~stopCalled
    /\ isRunning' = FALSE
    /\ stopCalled' = TRUE
    /\ UNCHANGED <<now, fs, table, pending, wpc, observer, iterKeys, cutoff, batch,
                   plan, readContent, recon, dirty, evFirst, evLast, reconEarly,
                   lastUpd>>
    /\ UNCHANGED <<batch_size, notSync>>

\* run(), up to observer.start(); an exception of the constructors ends run()
\* in its except clause.  The store is still empty: create_table finds
\* nothing to drop.
RunBegin(initFails) ==
    /\ wpc = "starting"
    /\ isRunning' = TRUE
    /\ IF initFails
       THEN wpc' = "crashed" /\ UNCHANGED observer
       ELSE wpc' = "loop" /\ observer' = "started"
    /\ UNCHANGED <<now, fs, table, pending, iterKeys, cutoff, batch, plan,
                   readContent, stopCalled, recon, dirty, evFirst, evLast,
                   reconEarly, lastUpd>>
    /\ UNCHANGED <<batch_size, notSync>>

\* while self._is_running: time.sleep(0.5) ... ; after the loop the observer
\* is stopped and joined
RunLoop ==
    /\ wpc = "loop"
    /\ IF isRunning
       THEN wpc' = "process" /\ UNCHANGED observer
       ELSE wpc' = "exited" /\ observer' = "stopped"
    /\ UNCHANGED <<now, fs, table, pending, isRunning, iterKeys, cutoff, batch,
                   plan, readContent, stopCalled, recon, dirty, evFirst, evLast,
                   reconEarly, lastUpd>>
    /\ UNCHANGED <<batch_size, notSync>>

\* _process_pending_changes, up to the start of the iteration of the dict
ProcessBegin ==
    /\ wpc = "process"
    /\ IF pending = <<>>
       THEN wpc' = "loop" /\ UNCHANGED <<cutoff, iterKeys>>
       ELSE /\ wpc' = "iter"
            /\ cutoff' = now - AUTO_SYNC_DEBOUNCE_SECONDS
            /\ iterKeys' = PendingKeys
    /\ UNCHANGED <<now, fs, table, pending, isRunning, observer, batch, plan,
                   readContent, stopCalled, recon, dirty, evFirst, evLast,
                   reconEarly, lastUpd>>
    /\ UNCHANGED <<batch_size, notSync>>

\* ready_files: (file_path, change_type) of the stable entries, in dict order
ReadyFiles ==
    LET stable == SelectSeq(pending, LAMBDA e : e.ts <= cutoff)
    IN [i \in DOMAIN stable |-> [file |-> stable[i].file, type |-> stable[i].type]]

\* the end of the iteration: a key inserted by the watcher thread meanwhile
\* makes the dict iterator raise RuntimeError, which leaves run() through its
\* except clause (the observer is not stopped there); otherwise the batch is
\* the first batch_size stable entries
ProcessSelect ==
    /\ wpc = "iter"
    /\ IF PendingKeys # iterKeys
       THEN wpc' = "crashed" /\ UNCHANGED batch
       ELSE IF ReadyFiles = <<>>
            THEN wpc' = "loop" /\ UNCHANGED batch
            ELSE wpc' = "batch" /\ batch' = Take(ReadyFiles, batch_size)
    /\ UNCHANGED <<now, fs, table, pending, isRunning, observer, iterKeys, cutoff,
                   plan, readContent, stopCalled, recon, dirty, evFirst, evLast,
                   reconEarly, lastUpd>>
    /\ UNCHANGED <<batch_size, notSync>>

\* what _update_file decides from change_type and the file it finds
PlanOf(change_type, content, readFails) ==
    IF change_type = DELETED THEN "delete"
    ELSE IF IsAbsent(content) THEN "delete"
    ELSE IF content.kind = "big" THEN "skip"
    ELSE IF readFails THEN "error"
    ELSE IF chunk_code("", content) = {} THEN "delete"
    ELSE "replace"

\* _update_file for the next entry of the batch, up to the parsed and
\* chunked content (readFails: open, read or parse_file fails)
UpdateBegin(readFails) ==
    /\ wpc = "batch"
    /\ LET f == Head(batch).file
           change_type == Head(batch).type
       IN /\ plan' = PlanOf(change_type, fs[f], readFails)
          /\ readContent' = IF change_type = DELETED THEN Absent ELSE fs[f]
          /\ recon' = [recon EXCEPT ![f] = @ + 1]
          /\ dirty' = [dirty EXCEPT ![f] = FALSE]
          /\ reconEarly' = IF now - evLast[f] < AUTO_SYNC_DEBOUNCE_SECONDS
                            THEN reconEarly \cup {f} ELSE reconEarly
    /\ wpc' = "write"
    /\ UNCHANGED <<now, fs, table, pending, isRunning, observer, iterKeys, cutoff,
                   batch, stopCalled, evFirst, evLast, lastUpd>>
    /\ UNCHANGED <<batch_size, notSync>>

\* the table after the store calls of _update_file
UpdateTable(f, deleteFails, addFails) ==
    CASE plan = "delete" -> delete_by_file(table, f, deleteFails)
      [] plan = "replace" ->
            IF addFails
            THEN delete_by_file(table, f, deleteFails)
            ELSE add_chunks(delete_by_file(table, f, deleteFails),
                            chunk_code(f, readContent))
      [] OTHER -> table

\* a store call of _update_file failed: table.delete inside delete_by_file,
\* or add_chunks
StoreCallFailed(deleteFails, addFails) ==
    \/ plan \in {"delete", "replace"} /\ deleteFails
    \/ plan = "replace" /\ addFails

\* _update_file returns normally
UpdateOk(addFails) ==
    \/ plan \in {"delete", "skip"}
    \/ plan = "replace" /\ ~addFails

\* the rest of _update_file (delete_by_file, add_chunks) and, back in
\* _process_pending_changes, the pop of the entry on either outcome
UpdateEnd(deleteFails, addFails) ==
    /\ wpc = "write"
    /\ LET f == Head(batch).file
       IN /\ table' = UpdateTable(f, deleteFails, addFails)
          /\ pending' = Pop(pending, f)
          /\ lastUpd' = [file |-> f, ok |-> UpdateOk(addFails), content |-> readContent,
                          before |-> RowsOf(f),
                          failed |-> ~UpdateOk(addFails) \/ StoreCallFailed(deleteFails, addFails)]
    /\ batch' = Tail(batch)
    /\ wpc' = IF Tail(batch) = <<>> THEN "loop" ELSE "batch"
    /\ plan' = "none"
    /\ readContent' = Absent
    /\ UNCHANGED <<now, fs, isRunning, observer, iterKeys, cutoff, stopCalled,
                   recon, dirty, evFirst, evLast, reconEarly>>
    /\ UNCHANGED <<batch_size, notSync>>

SyncNext ==
    \/ Tick
    \/ \E f \in Files, kind \in Kinds : FsWrite(f, kind)
    \/ \E f \in Files : FsDelete(f)
    \/ \E configured \in 1..BatchSize : Start(configured)
    \/ stop
    \/ \E initFails \in BOOLEAN : RunBegin(initFails)
    \/ RunLoop
    \/ ProcessBegin
    \/ ProcessSelect
    \/ \E readFails \in BOOLEAN : UpdateBegin(readFails)
    \/ \E deleteFails \in BOOLEAN, addFails \in BOOLEAN : UpdateEnd(deleteFails, addFails)


(***************************************************************************)
(* The writers of one project's store.  Each role constructs its own       *)
(* VectorDatabase for the project: CoreIndexer.index on the indexer        *)
(* thread, AutoSyncWorker.run on the auto-sync thread, and                 *)
(* create_search_engine or StatsManager on the foreground thread.          *)
(***************************************************************************)
Roles == {"indexer", "autosync", "foreground"}

\* the instance a role writes through: the one it constructed
InstanceOf(r) == r

\* self._lock = threading.RLock(): one lock per VectorDatabase instance
LockOf(r) == InstanceOf(r)

\* the write methods a running role calls after the constructor
MethodsOf(r) ==
    CASE r = "indexer" -> {"add_chunks"}
      [] r = "autosync" -> {"delete_by_file", "add_chunks"}
      [] OTHER -> {}

WritersInit ==
    /\ thread = [r \in Roles |-> "off"]
    /\ wop = [r \in Roles |-> "none"]
    /\ wpos = [r \in Roles |-> "idle"]
    /\ rlock = [r \in Roles |-> "free"]
    /\ upd = "none"

\* the roles inside a write of the store: table.add, table.delete, drop or
\* create of the table, or create_fts_index
Writing == {r \in Roles : wpos[r] \in {"table", "fts"}}

\* a role begins and runs the constructor first: CoreIndexer.index on the
\* thread of its caller, AutoSyncWorker.run after MainWindow._start_auto_sync,
\* a search or a stats request on the foreground thread; no role looks at
\* another before it constructs its VectorDatabase
StartThread(r) ==
    /\ thread[r] = "off"
    /\ thread' = [thread EXCEPT ![r] = "on"]
    /\ wop' = [wop EXCEPT ![r] = "create_table"]
    /\ wpos' = [wpos EXCEPT ![r] = "wait"]
    /\ UNCHANGED <<rlock, upd>>
    /\ UNCHANGED <<syncVars, idxVars, stVars, extVars>>

\* MainWindow._stop_auto_sync: stop() and a bounded wait; the worker leaves
\* after the call it is in
StopAutoSync ==
    /\ thread["autosync"] = "on"
    /\ thread' = [thread EXCEPT !["autosync"] = "stopping"]
    /\ UNCHANGED <<wop, wpos, rlock, upd>>
    /\ UNCHANGED <<syncVars, idxVars, stVars, extVars>>

\* the thread ends: index() returns, run() leaves its loop, the search is done
ThreadExit(r) ==
    /\ thread[r] # "off"
    /\ wpos[r] = "idle"
    /\ r = "autosync" => (thread[r] = "stopping" /\ upd = "none")
    /\ thread' = [thread EXCEPT ![r] = "off"]
    /\ UNCHANGED <<wop, wpos, rlock, upd>>
    /\ UNCHANGED <<syncVars, idxVars, stVars, extVars>>

\* the role calls add_chunks or delete_by_file.  _update_file calls
\* delete_by_file first and add_chunks only after it has returned; an update
\* that has deleted goes on to its add_chunks also when stop() was called
Call(r, m) ==
    /\ thread[r] = "on" \/ (r = "autosync" /\ thread[r] = "stopping" /\ upd = "deleted")
    /\ wpos[r] = "idle"
    /\ m \in MethodsOf(r)
    /\ r = "autosync" =>
          upd = (IF m = "delete_by_file" THEN "none" ELSE "deleted")
    /\ wop' = [wop EXCEPT ![r] = m]
    /\ wpos' = [wpos EXCEPT ![r] = "wait"]
    /\ upd' = IF r # "autosync" THEN upd
              ELSE IF m = "delete_by_file" THEN "delete" ELSE "add"
    /\ UNCHANGED <<thread, rlock>>
    /\ UNCHANGED <<syncVars, idxVars, stVars, extVars>>

\* with self._lock: the lock of the role's own instance
Acquire(r) ==
    /\ wpos[r] = "wait"
    /\ rlock[LockOf(r)] = "free"
    /\ rlock' = [rlock EXCEPT ![LockOf(r)] = r]
    /\ wpos' = [wpos EXCEPT ![r] = "table"]
    /\ UNCHANGED <<thread, wop, upd>>
    /\ UNCHANGED <<syncVars, idxVars, stVars, extVars>>

\* table.add, table.delete or drop/create of the table is done; the method
\* goes on to the FTS index (_ensure_fts_index, _update_fts_index), still
\* inside the with block (the nested with re-enters the RLock)
TableDone(r) ==
    /\ wpos[r] = "table"
    /\ wpos' = [wpos EXCEPT ![r] = "fts"]
    /\ UNCHANGED <<thread, wop, rlock, upd>>
    /\ UNCHANGED <<syncVars, idxVars, stVars, extVars>>

\* the end of the with block
Release(r) ==
    /\ wpos[r] = "fts"
    /\ rlock' = [rlock EXCEPT ![LockOf(r)] = "free"]
    /\ wpos' = [wpos EXCEPT ![r] = "idle"]
    /\ wop' = [wop EXCEPT ![r] = "none"]
    /\ upd' = IF r # "autosync" THEN upd
              ELSE IF wop[r] = "delete_by_file" THEN "deleted"
              ELSE IF wop[r] = "add_chunks" THEN "none"
              ELSE upd
    /\ UNCHANGED thread
    /\ UNCHANGED <<syncVars, idxVars, stVars, extVars>>

\* _update_file returns after delete_by_file alone: the file was deleted,
\* is gone, or has no chunks
UpdateReturn ==
    /\ upd = "deleted"
    /\ wpos["autosync"] = "idle"
    /\ upd' = "none"
    /\ UNCHANGED <<thread, wop, wpos, rlock>>
    /\ UNCHANGED <<syncVars, idxVars, stVars, extVars>>

WritersNext ==
    \/ UpdateReturn
    \/ \E r \in Roles : StartThread(r)
    \/ StopAutoSync
    \/ \E r \in Roles : ThreadExit(r)
    \/ \E r \in Roles, m \in {"add_chunks", "delete_by_file"} : Call(r, m)
    \/ \E r \in Roles : Acquire(r)
    \/ \E r \in Roles : TableDone(r)
    \/ \E r \in Roles : Release(r)


(***************************************************************************)
(* CoreIndexer.index: one run over the files the walker found.             *)
(***************************************************************************)
\* IndexingResult.__init__
IndexingResult ==
    [success |-> FALSE, error |-> "", total_files |-> 0, total_chunks |-> 0,
     indexed_files_count |-> 0, failed_files_count |-> 0, skipped_files_count |-> 0]

\* what handling one file comes to: chunks to buffer, a file over
\* MAX_FILE_SIZE, open/read failing, parse_file returning nothing, no chunks,
\* PermissionError of stat, any other exception of stat, parse or chunk
Outcomes == {"ok", "oversize", "read_error", "parse_fail", "no_chunks",
             "permission", "exception"}

\* the outcomes in which an error is raised or reported for the file
ErrorOutcomes == {"read_error", "parse_fail", "permission", "exception"}

IndexInit ==
    /\ ipc = "init"
    /\ nFiles = 0
    /\ idx = 0
    /\ all_chunks = 0
    /\ total_chunks = 0
    /\ result = IndexingResult
    /\ dbRows = 0
    /\ ftsRows = 0
    /\ is_cancelled = FALSE
    /\ progress = 0
    /\ fileStatus = <<>>
    /\ fileRaised = <<>>
    /\ cancelSeenAt = -1

\* index() up to the loop: a missing path and a failing constructor end the
\* run at once, the latter through the outer except clause; the project
\* directory is removed and the new table gets an FTS index over no rows
IndexBegin(n, pathExists, initFails) ==
    /\ ipc = "init"
    /\ IF ~pathExists
       THEN /\ result' = [result EXCEPT !.error = "Path does not exist"]
            /\ ipc' = "returned"
            /\ UNCHANGED nFiles
       ELSE IF initFails
       THEN /\ result' = [result EXCEPT !.error = "Database connection failed"]
            /\ ipc' = "returned"
            /\ UNCHANGED nFiles
       ELSE /\ nFiles' = n
            /\ result' = [result EXCEPT !.total_files = n, !.success = (n = 0)]
            /\ ipc' = IF n = 0 THEN "returned" ELSE "loop"
    /\ dbRows' = 0
    /\ ftsRows' = 0
    /\ UNCHANGED <<idx, all_chunks, total_chunks, is_cancelled, progress, fileStatus,
                   fileRaised, cancelSeenAt>>
    /\ UNCHANGED <<syncVars, wrVars, stVars, extVars>>

\* IndexerThread.cancel(), from the GUI thread
cancel ==
    /\ ipc \in {"loop", "final"}
    /\ ~is_cancelled
    /\ is_cancelled' = TRUE
    /\ UNCHANGED <<ipc, nFiles, idx, all_chunks, total_chunks, result, dbRows, ftsRows,
                   progress, fileStatus, fileRaised, cancelSeenAt>>
    /\ UNCHANGED <<syncVars, wrVars, stVars, extVars>>

\* a cancellation that leaves the result unmarked
CancelledResultUnmarked(res) == res

\* the result returned when should_cancel() is true
CancelledResult(res) == [res EXCEPT !.error = "Cancelled by user"]

\* the counters of the result after on_file_processed(status)
Counted(res, status) ==
    CASE status = "indexed" ->
            [res EXCEPT !.indexed_files_count = @ + 1]
      [] status = "failed" ->
            [res EXCEPT !.failed_files_count = @ + 1]
      [] OTHER ->
            [res EXCEPT !.skipped_files_count = @ + 1]

\* a classification that reports a file whose handling raised as skipped
StatusOfErrorsSkipped(outcome) ==
    IF outcome = "ok" THEN "indexed" ELSE "skipped"

\* the status a file gets before any flush
StatusOf(outcome) ==
    CASE outcome = "ok" -> "indexed"
      [] outcome \in {"oversize", "no_chunks"} -> "skipped"
      [] OTHER -> "failed"

\* the flush of the buffer is due after this file
FlushDue(outcome, k) == outcome = "ok" /\ all_chunks + k >= EmbeddingBatchSize

\* is_last_batch = (i == len(files) - 1)
is_last_batch == idx = nFiles - 1

\* one iteration of the loop over the files: the poll of should_cancel, then
\* the file with its outcome and k chunks, then the flush if the buffer is
\* full (flushFails: add_chunks raises, which the except clause of the file
\* catches).  Every exception of the iteration is caught by its own except
\* clauses, so the loop goes on to the next file.
FileStep(outcome, k, flushFails) ==
    /\ ipc = "loop"
    /\ IF is_cancelled
       THEN /\ result' = CancelledResult(result)
            /\ ipc' = "returned"
            /\ cancelSeenAt' = idx
            /\ UNCHANGED <<idx, all_chunks, total_chunks, dbRows, ftsRows, progress,
                           fileStatus, fileRaised>>
       ELSE /\ progress' = progress + 1
            /\ idx' = idx + 1
            /\ ipc' = IF idx + 1 = nFiles THEN "final" ELSE "loop"
            /\ fileRaised' = Append(fileRaised,
                                outcome \in ErrorOutcomes \/ (FlushDue(outcome, k) /\ flushFails))
            /\ IF FlushDue(outcome, k)
               THEN IF flushFails
                    THEN /\ all_chunks' = all_chunks + k
                         /\ result' = Counted(Counted(result, "indexed"), "failed")
                         /\ fileStatus' = Append(fileStatus, <<"indexed", "failed">>)
                         /\ UNCHANGED <<total_chunks, dbRows, ftsRows>>
                    ELSE /\ all_chunks' = 0
                         /\ dbRows' = dbRows + all_chunks + k
                         /\ ftsRows' = IF is_last_batch THEN dbRows + all_chunks + k ELSE ftsRows
                         /\ total_chunks' = total_chunks + all_chunks + k
                         /\ result' = Counted(result, "indexed")
                         /\ fileStatus' = Append(fileStatus, <<"indexed">>)
               ELSE /\ all_chunks' = IF outcome = "ok" THEN all_chunks + k ELSE all_chunks
                    /\ result' = Counted(result, StatusOf(outcome))
                    /\ fileStatus' = Append(fileStatus, <<StatusOf(outcome)>>)
                    /\ UNCHANGED <<total_chunks, dbRows, ftsRows>>
            /\ UNCHANGED cancelSeenAt
    /\ UNCHANGED <<nFiles, is_cancelled>>
    /\ UNCHANGED <<syncVars, wrVars, stVars, extVars>>

\* after the loop: the flush of what is left in the buffer, with
\* update_fts=True, the metadata and the result; an exception here reaches
\* the outer except clause, which returns the result with the error
FinalStep(flushFails, metadataFails) ==
    /\ ipc = "final"
    /\ IF all_chunks > 0 /\ flushFails
       THEN /\ result' = [result EXCEPT !.error = "Failed to add chunks"]
            /\ UNCHANGED <<all_chunks, total_chunks, dbRows, ftsRows>>
       ELSE /\ all_chunks' = 0
            /\ total_chunks' = total_chunks + all_chunks
            /\ dbRows' = dbRows + all_chunks
            /\ ftsRows' = IF all_chunks > 0 THEN dbRows + all_chunks ELSE ftsRows
            /\ result' = IF metadataFails
                         THEN [result EXCEPT !.error = "metadata"]
                         ELSE [result EXCEPT !.success = TRUE,
                                             !.total_chunks = total_chunks + all_chunks]
    /\ ipc' = "returned"
    /\ UNCHANGED <<nFiles, idx, is_cancelled, progress, fileStatus, fileRaised,
                   cancelSeenAt>>
    /\ UNCHANGED <<syncVars, wrVars, stVars, extVars>>

IndexNext ==
    \/ \E n \in 0..MaxFiles, pathExists \in BOOLEAN, initFails \in BOOLEAN :
          IndexBegin(n, pathExists, initFails)
    \/ cancel
    \/ \E outcome \in Outcomes, k \in 1..MaxChunks, flushFails \in BOOLEAN :
          FileStep(outcome, k, flushFails)
    \/ \E flushFails \in BOOLEAN, metadataFails \in BOOLEAN :
          FinalStep(flushFails, metadataFails)


(***************************************************************************)
(* EmbeddingGenerator and VectorDatabase.add_chunks.  A matrix of          *)
(* embeddings is the sequence of the lengths of its rows.                  *)
(***************************************************************************)
\* the dimensions of the models of the default configuration
ModelDims == {384, 768}

Matrix(count, dim) == [i \in 1..count |-> dim]

NoCall == [called |-> FALSE]

StoreInit ==
    /\ stpc = "new"
    /\ model = 0
    /\ embedding_dim = 0
    /\ storeVecs = <<>>
    /\ lastAdd = NoCall
    /\ lastEmb = NoCall

\* EmbeddingGenerator._generate_placeholder_embeddings
_generate_placeholder_embeddings(count) == Matrix(count, EMBEDDING_DIM)

\* EmbeddingGenerator.get_embedding_dim
get_embedding_dim(mdl) == IF mdl # 0 THEN mdl ELSE EMBEDDING_DIM

\* EmbeddingGenerator.generate_embeddings for n texts; encodeFails: the
\* encode call of the loaded model raises
generate_embeddings(n, encodeFails) ==
    IF n = 0 THEN <<>>
    ELSE IF model = 0 THEN _generate_placeholder_embeddings(n)
    ELSE IF encodeFails THEN _generate_placeholder_embeddings(n)
    ELSE Matrix(n, model)

\* VectorDatabase.add_chunks for n chunks and a matrix of embeddings: the
\* error it raises ("" for none) and the vectors of the rows it appends
AddOutcome(n, embeddings) ==
    IF n = 0 \/ Len(embeddings) = 0
    THEN [error |-> "", rows |-> <<>>]
    ELSE IF embeddings[1] # embedding_dim
    THEN [error |-> "ValueError", rows |-> <<>>]
    ELSE IF Len(embeddings) < n
    THEN [error |-> "RuntimeError", rows |-> <<>>]
    ELSE [error |-> "", rows |-> SubSeq(embeddings, 1, n)]

\* CoreIndexer.index constructing the embedder (mdl: the model it managed to
\* load, 0 for none) and the store with the dimension the embedder reports
Construct(mdl) ==
    /\ stpc = "new"
    /\ stpc' = "ready"
    /\ model' = mdl
    /\ embedding_dim' = get_embedding_dim(mdl)
    /\ UNCHANGED <<storeVecs, lastAdd, lastEmb>>
    /\ UNCHANGED <<syncVars, wrVars, idxVars, extVars>>

\* the effect of add_chunks(chunks, embeddings) on the store
AddEffect(n, embeddings) ==
    LET out == AddOutcome(n, embeddings) IN
    /\ Len(storeVecs) + Len(out.rows) <= MaxStoreRows
    /\ storeVecs' = storeVecs \o out.rows
    /\ lastAdd' = [called |-> TRUE, chunks |-> n, embeddings |-> embeddings,
                   error |-> out.error, appended |-> Len(out.rows)]

\* a caller's add_chunks with any matrix
AddChunks(n, count, dim) ==
    /\ stpc = "ready"
    /\ AddEffect(n, Matrix(count, dim))
    /\ UNCHANGED <<stpc, model, embedding_dim, lastEmb>>
    /\ UNCHANGED <<syncVars, wrVars, idxVars, extVars>>

\* the flush of the indexer: generate_embeddings of the buffered texts, then
\* add_chunks of the chunks with what it returned
Flush(n, encodeFails) ==
    /\ stpc = "ready"
    /\ lastEmb' = [called |-> TRUE, texts |-> n, out |-> generate_embeddings(n, encodeFails)]
    /\ AddEffect(n, generate_embeddings(n, encodeFails))
    /\ UNCHANGED <<stpc, model, embedding_dim>>
    /\ UNCHANGED <<syncVars, wrVars, idxVars, extVars>>

StoreNext ==
    \/ \E mdl \in {0} \cup ModelDims : Construct(mdl)
    \/ \E n \in 0..MaxTexts, count \in 0..(MaxTexts + 1), dim \in ModelDims :
          AddChunks(n, count, dim)
    \/ \E n \in 0..MaxTexts, encodeFails \in BOOLEAN : Flush(n, encodeFails)


(***************************************************************************)
(* CodeChunker.  A file is the sequence of its lines; of a line the        *)
(* chunker uses its length and whether it is blank.  Lines and chunks are  *)
(* numbered from 0 as in the code.                                         *)
(***************************************************************************)
LineKinds == {[len |-> 0, blank |-> TRUE], [len |-> 2, blank |-> FALSE],
              [len |-> 5, blank |-> FALSE]}

\* the values of chunk_size and of overlap the chunker is constructed with,
\* scaled to the line lengths above
ChunkSizes == {2, 6}
Overlaps == {0, 1, 6}

\* a minimum that does not clamp its first argument
MinUnclamped(a, b) == a

Min(a, b) == IF a < b THEN a ELSE b
Max(a, b) == IF a > b THEN a ELSE b

RECURSIVE SumLen(_)
SumLen(ls) == IF ls = <<>> THEN 0 ELSE Head(ls).len + SumLen(Tail(ls))

\* len('\n'.join(ls))
JoinLen(ls) == IF ls = <<>> THEN 0 ELSE SumLen(ls) + Len(ls) - 1

\* lines[a:b] of the code, for 0 <= a <= b <= len(lines)
Slice(ls, a, b) == SubSeq(ls, a + 1, b)

\* the nodes of a file of n lines: each inside the file, in pre-order, two
\* nodes nested or one after the other
NodesOf(n) ==
    LET Node == {nd \in [start_line : 0..(n - 1), end_line : 0..(n - 1)] :
                    nd.start_line <= nd.end_line}
        Ordered(a, b) ==
            /\ a.start_line <= b.start_line
            /\ b.end_line <= a.end_line \/ b.start_line >= a.end_line
    IN  {ns \in UNION {[1..k -> Node] : k \in 0..MaxNodes} :
            \A i \in DOMAIN ns : \A j \in DOMAIN ns : i < j => Ordered(ns[i], ns[j])}

\* lines_per_chunk and overlap_lines of _sliding_window_chunk: the size
\* divided by max(avg_line_length, 1), truncated
PerAvg(size, ls) ==
    IF SumLen(ls) <= Len(ls) THEN size ELSE (size * Len(ls)) \div SumLen(ls)

\* the loop of _sliding_window_chunk from line i on
RECURSIVE SlideFrom(_, _, _, _, _)
SlideFrom(i, total, lines_per_chunk, step, start_line_offset) ==
    LET end == Min(i + lines_per_chunk, total)
        chunk == [start_line |-> i + start_line_offset,
                  end_line |-> end - 1 + start_line_offset]
    IN  IF step <= 0 \/ i + step >= total
        THEN <<chunk>>
        ELSE <<chunk>> \o SlideFrom(i + step, total, lines_per_chunk, step, start_line_offset)

_sliding_window_chunk(ls, size, overlap, start_line_offset) ==
    LET lines_per_chunk == Max(PerAvg(size, ls), 1)
        ovl == Max(PerAvg(overlap, ls), 0)
    IN  IF Len(ls) = 0 THEN <<>>
        ELSE SlideFrom(0, Len(ls), lines_per_chunk, lines_per_chunk - ovl, start_line_offset)

\* the loop of _split_at_logical_boundaries from line i on, the current
\* chunk beginning at line current_start_line
RECURSIVE SplitFrom(_, _, _, _, _)
SplitFrom(ls, i, current_start_line, size, start_line_offset) ==
    IF i >= Len(ls)
    THEN IF current_start_line < Len(ls)
         THEN <<[start_line |-> start_line_offset + current_start_line,
                 end_line |-> start_line_offset + Len(ls) - 1]>>
         ELSE <<>>
    ELSE IF ls[i + 1].blank /\ JoinLen(Slice(ls, current_start_line, i + 1)) >= size
    THEN <<[start_line |-> start_line_offset + current_start_line,
            end_line |-> start_line_offset + i]>>
         \o SplitFrom(ls, i + 1, i + 1, size, start_line_offset)
    ELSE SplitFrom(ls, i + 1, current_start_line, size, start_line_offset)

_split_at_logical_boundaries(ls, size, overlap, start_line_offset) ==
    LET chunks == SplitFrom(ls, 0, 0, size, start_line_offset)
    IN  IF chunks # <<>> THEN chunks
        ELSE _sliding_window_chunk(ls, size, overlap, start_line_offset)

\* the chunks _semantic_chunk makes of one node
NodeChunks(ls, node, size, overlap) ==
    LET start_line == Max(0, node.start_line - overlap_lines)
        end_line == Min(Len(ls) - 1, node.end_line + overlap_lines)
    IN  IF ~(start_line < Len(ls) /\ end_line < Len(ls)) THEN <<>>
        ELSE IF JoinLen(Slice(ls, start_line, end_line + 1)) > size * 2
        THEN _split_at_logical_boundaries(Slice(ls, start_line, end_line + 1),
                                          size, overlap, start_line)
        ELSE <<[start_line |-> start_line, end_line |-> end_line]>>

RECURSIVE AllNodeChunks(_, _, _, _)
AllNodeChunks(ls, nodes, size, overlap) ==
    IF nodes = <<>> THEN <<>>
    ELSE NodeChunks(ls, Head(nodes), size, overlap)
         \o AllNodeChunks(ls, Tail(nodes), size, overlap)

_semantic_chunk(ls, nodes, size, overlap) ==
    LET chunks == AllNodeChunks(ls, nodes, size, overlap)
    IN  IF chunks # <<>> THEN chunks ELSE _sliding_window_chunk(ls, size, overlap, 0)

\* CodeChunker.chunk_code
CodeChunker_chunk_code(ls, nodes, size, overlap) ==
    IF nodes # <<>> THEN _semantic_chunk(ls, nodes, size, overlap)
    ELSE _sliding_window_chunk(ls, size, overlap, 0)

\* the id add_chunks gives the row of a chunk of file_path
IdOf(file_path, chunk) == <<file_path, chunk.start_line>>

ChunkInit ==
    /\ chpc = "new"
    /\ chLines = <<>>
    /\ chNodes = <<>>
    /\ chSize = 0
    /\ chOverlap = 0
    /\ chOut = <<>>

notChunk == <<syncVars, wrVars, idxVars, stVars, seVars, flVars, swVars, hyVars, rrVars, opVars, guVars>>

\* a file is read and parsed, and a chunker is constructed
ChunkInput(ls, nodes, size, overlap) ==
    /\ chpc = "new"
    /\ chpc' = "input"
    /\ chLines' = ls
    /\ chNodes' = nodes
    /\ chSize' = size
    /\ chOverlap' = overlap
    /\ UNCHANGED chOut
    /\ UNCHANGED notChunk

\* chunker.chunk_code(content, rel_path, language, nodes)
ChunkCode ==
    /\ chpc = "input"
    /\ chpc' = "done"
    /\ chOut' = CodeChunker_chunk_code(chLines, chNodes, chSize, chOverlap)
    /\ UNCHANGED <<chLines, chNodes, chSize, chOverlap>>
    /\ UNCHANGED notChunk

ChunkNext ==
    \/ /\ chpc = "new"
       /\ \E n \in 1..MaxLines : \E nodes \in NodesOf(n) : \E ls \in [1..n -> LineKinds] :
          \E size \in ChunkSizes, overlap \in Overlaps :
             ChunkInput(ls, nodes, size, overlap)
    \/ ChunkCode

(***************************************************************************)
(* Search requests: SearchManager.execute_search (the GUI), CLIHandler     *)
(* .search (the command line) and HybridSearch.search (the engine).        *)
(***************************************************************************)
\* a query is empty, whitespace only, or has text
Queries == {"", " ", "login"}

ValidModes == {"vector", "keyword", "hybrid"}

\* the modes a caller may pass; argparse lets only the valid ones through
Modes == ValidModes \cup {"fuzzy"}

Limits == {-1, 0, 1, 10}

Entries == {"manager", "cli", "engine"}

NoRequest == [entry |-> "none", query |-> "", mode |-> "", limit |-> 0]

SearchInit ==
    /\ spc = "idle"
    /\ sreq = NoRequest
    /\ sOpened = FALSE
    /\ sLoaded = FALSE
    /\ sRan = "none"
    /\ sOutcome = "none"

notSearch == <<syncVars, wrVars, idxVars, stVars, chVars, flVars, swVars, hyVars, rrVars, opVars, guVars>>

\* not query or not query.strip()
IsBlank(query) == query \in {"", " "}

\* the checks at the head of execute_search: the request is let through
ParamsOk(req) ==
    /\ ~IsBlank(req.query)
    /\ req.limit > 0
    /\ req.mode \in ValidModes

\* a search is requested at one of the entries.  execute_search validates
\* first, CLIHandler.search begins with _init_search, and HybridSearch.search
\* dispatches at once on an engine that was constructed before.
Request(entry, query, mode, limit) ==
    /\ spc = "idle"
    /\ entry = "cli" => mode \in ValidModes
    /\ sreq' = [entry |-> entry, query |-> query, mode |-> mode, limit |-> limit]
    /\ spc' = CASE entry = "manager" -> "validate"
                [] entry = "cli" -> "init"
                [] OTHER -> "dispatch"
    /\ UNCHANGED <<sOpened, sLoaded, sRan, sOutcome>>
    /\ UNCHANGED notSearch

\* SearchManager.execute_search: ValueError for an invalid parameter
Validate ==
    /\ spc = "validate"
    /\ IF ParamsOk(sreq)
       THEN spc' = "init" /\ UNCHANGED sOutcome
       ELSE spc' = "done" /\ sOutcome' = "ValueError"
    /\ UNCHANGED <<sreq, sOpened, sLoaded, sRan>>
    /\ UNCHANGED notSearch

\* SearchManager.initialize_search or CLIHandler._init_search: the store is
\* opened and the embedding model is loaded
InitSearch ==
    /\ spc = "init"
    /\ spc' = "dispatch"
    /\ sOpened' = TRUE
    /\ sLoaded' = TRUE
    /\ UNCHANGED <<sreq, sRan, sOutcome>>
    /\ UNCHANGED notSearch

\* the search HybridSearch.search runs for a mode
SearchFor(mode) ==
    CASE mode = "vector" -> "vector"
      [] mode = "keyword" -> "keyword"
      [] mode = "hybrid" -> "hybrid"
      [] OTHER -> "hybrid"

\* HybridSearch.search
Dispatch ==
    /\ spc = "dispatch"
    /\ spc' = "done"
    /\ sRan' = SearchFor(sreq.mode)
    /\ sOutcome' = "results"
    /\ UNCHANGED <<sreq, sOpened, sLoaded>>
    /\ UNCHANGED notSearch

SearchNext ==
    \/ /\ spc = "idle"
       /\ \E entry \in Entries, query \in Queries, mode \in Modes, limit \in Limits :
             Request(entry, query, mode, limit)
    \/ Validate
    \/ InitSearch
    \/ Dispatch

(***************************************************************************)
(* File filters: the auto-sync worker's _should_process against the        *)
(* indexer's walker _find_files.  A path is a sequence of characters.      *)
(***************************************************************************)
\* paths under the project root: a/m.py, a/m.PY, a/m.js, a/m.bin, a/.py,
\* a/m, env/m.py, a/m.log.py
Paths ==
    { <<"a", "/", "m", ".", "p", "y">>,
      <<"a", "/", "m", ".", "P", "Y">>,
      <<"a", "/", "m", ".", "j", "s">>,
      <<"a", "/", "m", ".", "b", "i", "n">>,
      <<"a", "/", ".", "p", "y">>,
      <<"a", "/", "m">>,
      <<"e", "n", "v", "/", "m", ".", "p", "y">>,
      <<"a", "/", "m", ".", "l", "o", "g", ".", "p", "y">> }

\* path_blacklist + extension_blacklist: env, .log
DEFAULT_IGNORE_PATTERNS == << <<"e", "n", "v">>, <<".", "l", "o", "g">> >>

\* TreeSitterParser.get_all_supported_extensions(): .py, .js (lower case)
supported_exts == { <<".", "p", "y">>, <<".", "j", "s">> }

Languages == {"python", "javascript"}

\* AppConfig has no attribute SUPPORTED_LANGUAGES: reading it raises
NoAttribute ==
    [defined |-> FALSE, ext |-> [python |-> {}, javascript |-> {}]]

\* a value of the shape _should_process reads: language -> extension or
\* list of extensions
LangExts ==
    [defined |-> TRUE,
     ext |-> [python |-> {<<".", "p", "y">>}, javascript |-> {<<".", "j", "s">>}]]

\* str.lower(), on the characters of Paths
LowerChar(c) ==
    CASE c = "P" -> "p"
      [] c = "Y" -> "y"
      [] OTHER -> c

Lower(str) == [i \in 1..Len(str) |-> LowerChar(str[i])]

\* pattern in path_str
Contains(pattern, str) ==
    \E i \in 1..(Len(str) - Len(pattern) + 1) :
        SubSeq(str, i, i + Len(pattern) - 1) = pattern

\* the index of the last c in str, 0 when there is none
LastIndexOf(c, str) ==
    LET at == {i \in 1..Len(str) : str[i] = c}
    IN  IF at = {} THEN 0 ELSE CHOOSE i \in at : \A j \in at : j <= i

\* Path.name: the last component
NameOf(path) == SubSeq(path, LastIndexOf("/", path) + 1, Len(path))

\* Path.suffix: from the last dot of the name, unless the name begins or
\* ends with it
SuffixOf(path) ==
    LET name == NameOf(path)
        i    == LastIndexOf(".", name)
    IN  IF 1 < i /\ i < Len(name) THEN SubSeq(name, i, Len(name)) ELSE <<>>

\* CoreIndexer._should_ignore, and the loop at the end of _should_process
_should_ignore(path) ==
    \E k \in 1..Len(DEFAULT_IGNORE_PATTERNS) :
        Contains(DEFAULT_IGNORE_PATTERNS[k], path)

\* CoreIndexer._find_files: the path is enumerated
_find_files(path) ==
    /\ ~_should_ignore(path)
    /\ Lower(SuffixOf(path)) \in supported_exts

\* enabled_exts of _should_process
enabled_exts(langs, map) == UNION {map.ext[lang] : lang \in langs}

\* AutoSyncWorker._should_process; with SUPPORTED_LANGUAGES absent the
\* loop over a non-empty enabled_languages raises and nothing is queued
_should_process(path, langs, map) ==
    IF ~map.defined
    THEN FALSE
    ELSE /\ SuffixOf(path) \in enabled_exts(langs, map)
         /\ ~_should_ignore(path)

FilterInit ==
    /\ fpc = "new"
    /\ fPath = <<>>
    /\ fLangs = {}
    /\ fLangMap = NoAttribute
    /\ fQueued = "none"
    /\ fWalked = "none"

notFilter == <<syncVars, wrVars, idxVars, stVars, chVars, seVars, swVars, hyVars, rrVars, opVars, guVars>>

YesNo(b) == IF b THEN "yes" ELSE "no"

\* a file at path exists under the root of a project whose worker was
\* constructed with langs
FilterInput(path, langs, map) ==
    /\ fpc = "new"
    /\ fpc' = "ready"
    /\ fPath' = path
    /\ fLangs' = langs
    /\ fLangMap' = map
    /\ UNCHANGED <<fQueued, fWalked>>
    /\ UNCHANGED notFilter

\* AutoSyncWorker._on_file_change for an event of the path
OnFileChange ==
    /\ fpc = "ready"
    /\ fQueued = "none"
    /\ fQueued' = YesNo(_should_process(fPath, fLangs, fLangMap))
    /\ UNCHANGED <<fpc, fPath, fLangs, fLangMap, fWalked>>
    /\ UNCHANGED notFilter

\* CoreIndexer._find_files over the project
FindFiles ==
    /\ fpc = "ready"
    /\ fWalked = "none"
    /\ fWalked' = YesNo(_find_files(fPath))
    /\ UNCHANGED <<fpc, fPath, fLangs, fLangMap, fQueued>>
    /\ UNCHANGED notFilter

FilterNext ==
    \/ /\ fpc = "new"
       /\ \E path \in Paths, langs \in SUBSET Languages, map \in {NoAttribute, LangExts} :
             FilterInput(path, langs, map)
    \/ OnFileChange
    \/ FindFiles

(***************************************************************************)
(* The loop of CodeChunker._sliding_window_chunk, one iteration a step.    *)
(***************************************************************************)
\* a break test that never breaks
NeverBreaks(i, start) == FALSE

\* i <= chunks[-1].start_line - start_line_offset
Breaks(i, start) == i <= start

lines_per_chunk_of(ls, size) == Max(PerAvg(size, ls), 1)

overlap_lines_of(ls, overlap) == Max(PerAvg(overlap, ls), 0)

Offsets == {0, 1}

SlideInit ==
    /\ swpc = "new"
    /\ swLines = <<>>
    /\ swSize = 0
    /\ swOverlap = 0
    /\ swOffset = 0
    /\ swI = 0
    /\ swOut = <<>>

notSlide == <<syncVars, wrVars, idxVars, stVars, chVars, seVars, flVars, hyVars, rrVars, opVars, guVars>>

\* _sliding_window_chunk is called: chunks = [], i = 0
SlideInput(ls, size, overlap, start_line_offset) ==
    /\ swpc = "new"
    /\ swpc' = "loop"
    /\ swLines' = ls
    /\ swSize' = size
    /\ swOverlap' = overlap
    /\ swOffset' = start_line_offset
    /\ swI' = 0
    /\ swOut' = <<>>
    /\ UNCHANGED notSlide

\* the while test and, when it passes, one pass through the body
SlideIter ==
    /\ swpc = "loop"
    /\ IF swI < Len(swLines)
       THEN LET end == Min(swI + lines_per_chunk_of(swLines, swSize), Len(swLines))
                chunk == [start_line |-> swI + swOffset, end_line |-> end - 1 + swOffset]
                i == swI + lines_per_chunk_of(swLines, swSize)
                         - overlap_lines_of(swLines, swOverlap)
            IN  /\ swOut' = Append(swOut, chunk)
                /\ swI' = i
                /\ swpc' = IF Breaks(i, chunk.start_line - swOffset) THEN "done" ELSE "loop"
       ELSE /\ swpc' = "done"
            /\ UNCHANGED <<swI, swOut>>
    /\ UNCHANGED <<swLines, swSize, swOverlap, swOffset>>
    /\ UNCHANGED notSlide

SlideNext ==
    \/ /\ swpc = "new"
       /\ \E n \in 1..MaxLines : \E ls \in [1..n -> LineKinds] :
          \E size \in ChunkSizes, overlap \in Overlaps, start_line_offset \in Offsets :
             SlideInput(ls, size, overlap, start_line_offset)
    \/ SlideIter

(***************************************************************************)
(* HybridSearch._hybrid_search and _rrf_fusion.  A result is identified by *)
(* its id; scores are kept exact, as integers over a common denominator.   *)
(***************************************************************************)
Docs == 1..MaxDocs

\* the limits a caller passes; HybridSearch.search does not check them
HybridLimits == {-1, 0, 1, 2, 3}

\* _adaptive_rrf_k: 20 for a symbol query, 60 (rrf_k) otherwise
AdaptiveKs == {20, 60}

\* values of _calculate_symbol_boost in units of 0.05: a nested plain chunk,
\* a top-level plain chunk, a top-level chunk whose name matches
Boosts == {-1, 1, 7}

\* result lists: no id twice
ListsOf(n) ==
    {l \in UNION {[1..k -> Docs] : k \in 0..n} :
        \A i \in DOMAIN l : \A j \in DOMAIN l : i # j => l[i] # l[j]}

\* int(limit * 1.5): truncation toward zero
fetch_limit(limit) ==
    IF limit >= 0 THEN (3 * limit) \div 2 ELSE -((3 * (-limit)) \div 2)

\* seq[:n] of Python
PySlice(seq, n) ==
    IF n >= 0 THEN SubSeq(seq, 1, Min(n, Len(seq)))
    ELSE SubSeq(seq, 1, Max(Len(seq) + n, 0))

\* the keys of rrf_scores in insertion order: the vector list, then the
\* ids only the keyword list has
InsertionOrder(vec, key) ==
    vec \o SelectSeq(key, LAMBDA d : \A i \in DOMAIN vec : vec[i] # d)

\* the common denominator of 1 / (k + rank) for rank in 1..MaxDocs, times
\* the 20 of the boost unit
RECURSIVE Denominator(_, _)
Denominator(k, n) == IF n = 0 THEN 20 ELSE (k + n) * Denominator(k, n - 1)

\* the sum of 1.0 / (adaptive_k + rank) over the ranks of d in a list
RrfOf(d, list, k) ==
    IF \E i \in DOMAIN list : list[i] = d
    THEN Denominator(k, MaxDocs) \div (k + (CHOOSE i \in DOMAIN list : list[i] = d))
    ELSE 0

\* rrf_scores[doc_id]['score'] after the boost
ScoreOf(d, vec, key, boost, k) ==
    RrfOf(d, vec, k) + RrfOf(d, key, k) + boost[d] * (Denominator(k, MaxDocs) \div 20)

\* sorted(seq, key=score, reverse=True): stable, equal scores keep the
\* order of seq
RECURSIVE SortedDesc(_, _)
SortedDesc(seq, score) ==
    IF seq = <<>> THEN <<>>
    ELSE LET i == CHOOSE a \in DOMAIN seq :
                     \A b \in DOMAIN seq :
                         \/ score[seq[b]] < score[seq[a]]
                         \/ score[seq[b]] = score[seq[a]] /\ a <= b
             rest == [j \in 1..(Len(seq) - 1) |-> IF j < i THEN seq[j] ELSE seq[j + 1]]
         IN  <<seq[i]>> \o SortedDesc(rest, score)

_rrf_fusion(vec, key, boost, k, limit) ==
    LET score == [d \in Docs |-> ScoreOf(d, vec, key, boost, k)]
    IN  PySlice(SortedDesc(InsertionOrder(vec, key), score), limit)

HybridInit ==
    /\ hpc = "idle"
    /\ hLimit = 0
    /\ hK = 60
    /\ hFetch = 0
    /\ hVec = <<>>
    /\ hKey = <<>>
    /\ hBoost = [d \in Docs |-> 1]
    /\ hFused = <<>>

notHybrid == <<syncVars, wrVars, idxVars, stVars, chVars, seVars, flVars, swVars, rrVars, opVars, guVars>>

\* _hybrid_search(query, limit, filters) is called and asks both searches
\* for fetch_limit results
HybridBegin(limit, k) ==
    /\ hpc = "idle"
    /\ hpc' = "fetch"
    /\ hLimit' = limit
    /\ hK' = k
    /\ hFetch' = fetch_limit(limit)
    /\ UNCHANGED <<hVec, hKey, hBoost, hFused>>
    /\ UNCHANGED notHybrid

\* the lists the store may return for a requested size; what it returns
\* for a size below 1 is left open
Returnable(n) == IF n >= 1 THEN ListsOf(Min(n, MaxDocs)) ELSE ListsOf(MaxDocs)

\* _vector_search and _keyword_search return
HybridFetch(vec, key, boost) ==
    /\ hpc = "fetch"
    /\ vec \in Returnable(hFetch)
    /\ key \in Returnable(hFetch)
    /\ hpc' = "fuse"
    /\ hVec' = vec
    /\ hKey' = key
    /\ hBoost' = boost
    /\ UNCHANGED <<hLimit, hK, hFetch, hFused>>
    /\ UNCHANGED notHybrid

\* fused_results = self._rrf_fusion(query, [vector_results, keyword_results], limit)
HybridFuse ==
    /\ hpc = "fuse"
    /\ hpc' = "done"
    /\ hFused' = _rrf_fusion(hVec, hKey, hBoost, hK, hLimit)
    /\ UNCHANGED <<hLimit, hK, hFetch, hVec, hKey, hBoost>>
    /\ UNCHANGED notHybrid

HybridNext ==
    \/ /\ hpc = "idle"
       /\ \E limit \in HybridLimits, k \in AdaptiveKs : HybridBegin(limit, k)
    \/ /\ hpc = "fetch"
       /\ \E vec \in ListsOf(MaxDocs), key \in ListsOf(MaxDocs), boost \in [Docs -> Boosts] :
             HybridFetch(vec, key, boost)
    \/ HybridFuse

(***************************************************************************)
(* CrossEncoderReranker.rerank.  The configuration values it reads are     *)
(* inputs of the call.                                                     *)
(***************************************************************************)
\* values of RERANK_TOP_K
TopKs == 0..(MaxDocs + 1)

\* cross-encoder scores; two documents may get the same
CrossScores == {0, 1, 2}

\* a prefix length that takes the whole list
TopKAll(top_k, n) == n

\* top_k = min(top_k, len(results))
TopKOf(top_k, n) == Min(top_k, n)

\* rerank(query, results)
rerank(results, enabled, available, top_k, scores, fails) ==
    IF ~enabled \/ results = <<>> \/ ~available THEN results
    ELSE LET k == TopKOf(top_k, Len(results))
             to_rerank == PySlice(results, k)
             rest == SubSeq(results, Len(to_rerank) + 1, Len(results))
         IN  IF fails THEN results
             ELSE SortedDesc(to_rerank, scores) \o rest

RerankInit ==
    /\ rpc = "new"
    /\ rResults = <<>>
    /\ rEnabled = FALSE
    /\ rAvailable = FALSE
    /\ rTopK = 0
    /\ rScores = [d \in Docs |-> 0]
    /\ rFails = FALSE
    /\ rOut = <<>>

notRerank == <<syncVars, wrVars, idxVars, stVars, chVars, seVars, flVars, swVars, hyVars, opVars, guVars>>

\* self.reranker.rerank(query, fused_results) is called
RerankCall(results, enabled, available, top_k, scores, fails) ==
    /\ rpc = "new"
    /\ rpc' = "called"
    /\ rResults' = results
    /\ rEnabled' = enabled
    /\ rAvailable' = available
    /\ rTopK' = top_k
    /\ rScores' = scores
    /\ rFails' = fails
    /\ UNCHANGED rOut
    /\ UNCHANGED notRerank

\* rerank returns
RerankReturn ==
    /\ rpc = "called"
    /\ rpc' = "done"
    /\ rOut' = rerank(rResults, rEnabled, rAvailable, rTopK, rScores, rFails)
    /\ UNCHANGED <<rResults, rEnabled, rAvailable, rTopK, rScores, rFails>>
    /\ UNCHANGED notRerank

RerankNext ==
    \/ /\ rpc = "new"
       /\ \E results \in ListsOf(MaxDocs), enabled \in BOOLEAN, available \in BOOLEAN,
             top_k \in TopKs, scores \in [Docs -> CrossScores], fails \in BOOLEAN :
             RerankCall(results, enabled, available, top_k, scores, fails)
    \/ RerankReturn

(***************************************************************************)
(* Opening a project's store.  The table is the list size of its vector   *)
(* column and the number of its rows.                                      *)
(***************************************************************************)
\* the callers that open the store to read it
Readers == {"create_search_engine", "StatsManager", "CLIHandler"}

NoOpen == [called |-> FALSE]

notOpen == <<syncVars, wrVars, idxVars, stVars, chVars, seVars, flVars, swVars, hyVars, rrVars, guVars>>

OpenInit ==
    /\ cfgDim = 0
    /\ vdbImported = FALSE
    /\ defaultDim = 0
    /\ tblDim = 0
    /\ tblRows = 0
    /\ lastOpen = NoOpen

\* AppConfig._load_base_config reading embedding.default_dim
_load_base_config(dim) ==
    /\ cfgDim' = dim
    /\ UNCHANGED <<vdbImported, defaultDim, tblDim, tblRows, lastOpen>>
    /\ UNCHANGED notOpen

\* the import of app.search.vector_db: the def statements evaluate the
\* default of embedding_dim once, from the configuration as it is then
ImportVectorDb ==
    /\ ~vdbImported
    /\ vdbImported' = TRUE
    /\ defaultDim' = cfgDim
    /\ UNCHANGED <<cfgDim, tblDim, tblRows, lastOpen>>
    /\ UNCHANGED notOpen

\* VectorDatabase.create_table(embedding_dim = wanted) on a table of list
\* size dim with rows rows.  With wanted None pa.list_ raises for the list
\* size and the except clause raises RuntimeError before the table is read.
create_table(wanted, dim, rows) ==
    IF wanted = 0
    THEN [raised |-> TRUE, dim |-> dim, rows |-> rows, dropped |-> FALSE]
    ELSE IF dim = 0
    THEN [raised |-> FALSE, dim |-> wanted, rows |-> 0, dropped |-> FALSE]
    ELSE IF dim # wanted
    THEN [raised |-> FALSE, dim |-> wanted, rows |-> 0, dropped |-> TRUE]
    ELSE [raised |-> FALSE, dim |-> dim, rows |-> rows, dropped |-> FALSE]

\* CoreIndexer.index: the project directory is cleared, the store is built
\* with the dimension of the embedder (mdl: the model it loaded, 0 for none)
\* and n rows are added
IndexProject(mdl, n) ==
    LET made == create_table(get_embedding_dim(mdl), 0, 0) IN
    /\ vdbImported
    /\ tblDim' = made.dim
    /\ tblRows' = made.rows + n
    /\ UNCHANGED <<cfgDim, vdbImported, defaultDim, lastOpen>>
    /\ UNCHANGED notOpen

\* VectorDatabase(project_path=project_path) from a reader: embedding_dim is
\* the default.  create_search_engine loads the configuration first (dim).
OpenStore(reader, dim) ==
    LET made == create_table(defaultDim, tblDim, tblRows) IN
    /\ vdbImported
    /\ cfgDim' = IF reader = "create_search_engine" THEN dim ELSE cfgDim
    /\ tblDim' = made.dim
    /\ tblRows' = made.rows
    /\ lastOpen' = [called |-> TRUE, reader |-> reader, raised |-> made.raised,
                    dropped |-> made.dropped,
                    before |-> [dim |-> tblDim, rows |-> tblRows],
                    after |-> [dim |-> made.dim, rows |-> made.rows]]
    /\ UNCHANGED <<vdbImported, defaultDim>>
    /\ UNCHANGED notOpen

OpenNext ==
    \/ \E dim \in ModelDims : _load_base_config(dim)
    \/ ImportVectorDb
    \/ \E mdl \in ModelDims \cup {0}, n \in 1..MaxStoreRows : IndexProject(mdl, n)
    \/ \E reader \in Readers, dim \in ModelDims : OpenStore(reader, dim)

(***************************************************************************)
(* MainWindow and the life cycle of its AutoSyncWorker.  Every handler     *)
(* runs on the GUI thread, one at a time.                                  *)
(***************************************************************************)
\* AutoSyncWorker threads created in one run
MaxWorkers == 3
\* restart timers pending at once
MaxTimers == 2

GuiInit ==
    /\ gpc = "new"
    /\ gProject = FALSE
    /\ gEnabled = FALSE
    /\ gWorker = [ref |-> 0, running |-> {}, created |-> 0]
    /\ gTimers = 0
    /\ gIndexing = FALSE

notGui == <<syncVars, wrVars, idxVars, stVars, chVars, seVars, flVars, swVars, hyVars, rrVars, opVars>>

\* MainWindow._start_auto_sync on the worker state w; langsRaise: reading
\* AppConfig.get_enabled_languages raises, which leaves the method before a
\* worker is made
_start_auto_sync(w, project, langsRaise) ==
    IF ~project \/ langsRaise THEN w
    ELSE [ref |-> w.created + 1,
          running |-> w.running \cup {w.created + 1},
          created |-> w.created + 1]

\* MainWindow._stop_auto_sync; timesOut: wait(5000) returns before the
\* thread has finished
_stop_auto_sync(w, timesOut) ==
    IF w.ref = 0 THEN w
    ELSE [ref |-> 0,
          running |-> IF timesOut THEN w.running ELSE w.running \ {w.ref},
          created |-> w.created]

\* _stop_auto_sync followed by _start_auto_sync
Restart(w, project, langsRaise, timesOut) ==
    _start_auto_sync(_stop_auto_sync(w, timesOut), project, langsRaise)

\* a handler may create a worker
CanCreate == gWorker.created < MaxWorkers

\* MainWindow.__init__: _load_initial_project, then _init_auto_sync
Construct_window(projects, enabled, langsRaise) ==
    /\ gpc = "new"
    /\ gpc' = "open"
    /\ gProject' = projects
    /\ gEnabled' = enabled
    /\ gWorker' = IF enabled THEN _start_auto_sync(gWorker, projects, langsRaise)
                  ELSE gWorker
    /\ UNCHANGED <<gTimers, gIndexing>>
    /\ UNCHANGED notGui

\* SettingsWidget._on_autosync_toggled and MainWindow._on_autosync_toggled:
\* the checkbox changes state
_on_autosync_toggled(langsRaise, timesOut) ==
    /\ gpc = "open"
    /\ CanCreate
    /\ gEnabled' = ~gEnabled
    /\ gWorker' = IF ~gEnabled THEN _start_auto_sync(gWorker, gProject, langsRaise)
                  ELSE _stop_auto_sync(gWorker, timesOut)
    /\ UNCHANGED <<gpc, gProject, gTimers, gIndexing>>
    /\ UNCHANGED notGui

\* MainWindow._on_project_changed with a project of the selector
_on_project_changed(langsRaise, timesOut) ==
    /\ gpc = "open"
    /\ CanCreate
    /\ gProject' = TRUE
    /\ gWorker' = IF gEnabled THEN Restart(gWorker, TRUE, langsRaise, timesOut)
                  ELSE gWorker
    /\ UNCHANGED <<gpc, gEnabled, gTimers, gIndexing>>
    /\ UNCHANGED notGui

\* IndexerWidget._start_indexing: indexing_path_changed is emitted (the
\* handler restarts the worker), the indexer thread starts, then
\* indexing_started is emitted (the handler stops the worker)
_start_indexing(langsRaise, timesOut, timesOut2) ==
    LET w1 == IF gEnabled THEN Restart(gWorker, gProject, langsRaise, timesOut)
              ELSE gWorker
    IN
    /\ gpc = "open"
    /\ CanCreate
    /\ ~gIndexing
    /\ gIndexing' = TRUE
    /\ gWorker' = _stop_auto_sync(w1, timesOut2)
    /\ UNCHANGED <<gpc, gProject, gEnabled, gTimers>>
    /\ UNCHANGED notGui

\* MainWindow._on_indexing_finished: the restart is left to a timer
_on_indexing_finished ==
    /\ gpc = "open"
    /\ gIndexing
    /\ gIndexing' = FALSE
    /\ IF gEnabled
       THEN gTimers < MaxTimers /\ gTimers' = gTimers + 1
       ELSE gTimers' = gTimers
    /\ UNCHANGED <<gpc, gProject, gEnabled, gWorker>>
    /\ UNCHANGED notGui

\* the timer of _on_indexing_finished fires: _start_auto_sync
TimerFires(langsRaise) ==
    /\ gpc = "open"
    /\ CanCreate
    /\ gTimers > 0
    /\ gTimers' = gTimers - 1
    /\ gWorker' = _start_auto_sync(gWorker, gProject, langsRaise)
    /\ UNCHANGED <<gpc, gProject, gEnabled, gIndexing>>
    /\ UNCHANGED notGui

\* the run method of a worker returns
WorkerFinishes(id) ==
    /\ id \in gWorker.running
    /\ gWorker' = [gWorker EXCEPT !.running = @ \ {id}]
    /\ UNCHANGED <<gpc, gProject, gEnabled, gTimers, gIndexing>>
    /\ UNCHANGED notGui

\* MainWindow.closeEvent
closeEvent(timesOut) ==
    /\ gpc = "open"
    /\ gpc' = "closed"
    /\ gWorker' = _stop_auto_sync(gWorker, timesOut)
    /\ UNCHANGED <<gProject, gEnabled, gTimers, gIndexing>>
    /\ UNCHANGED notGui

GuiNext ==
    \/ \E projects \in BOOLEAN, enabled \in BOOLEAN, langsRaise \in BOOLEAN :
          Construct_window(projects, enabled, langsRaise)
    \/ \E langsRaise \in BOOLEAN, timesOut \in BOOLEAN :
          _on_autosync_toggled(langsRaise, timesOut)
    \/ \E langsRaise \in BOOLEAN, timesOut \in BOOLEAN :
          _on_project_changed(langsRaise, timesOut)
    \/ \E langsRaise \in BOOLEAN, timesOut \in BOOLEAN, timesOut2 \in BOOLEAN :
          _start_indexing(langsRaise, timesOut, timesOut2)
    \/ _on_indexing_finished
    \/ \E langsRaise \in BOOLEAN : TimerFires(langsRaise)
    \/ \E id \in 1..MaxWorkers : WorkerFinishes(id)
    \/ \E timesOut \in BOOLEAN : closeEvent(timesOut)

Init ==
    /\ SyncInit /\ WritersInit /\ IndexInit /\ StoreInit /\ ChunkInit
    /\ SearchInit /\ FilterInit /\ SlideInit /\ HybridInit /\ RerankInit /\ OpenInit /\ GuiInit

SpecSync == Init /\ [][SyncNext]_vars

SpecWriters == Init /\ [][WritersNext]_vars

SpecIndex == Init /\ [][IndexNext]_vars

SpecStore == Init /\ [][StoreNext]_vars

SpecChunk == Init /\ [][ChunkNext]_vars

SpecSearch == Init /\ [][SearchNext]_vars

SpecFilter == Init /\ [][FilterNext]_vars

SpecGui == Init /\ [][GuiNext]_vars

SpecOpen == Init /\ [][OpenNext]_vars

SpecRerank == Init /\ [][RerankNext]_vars

SpecHybrid == Init /\ [][HybridNext]_vars

SpecSlide == Init /\ [][SlideNext]_vars

\* the thread that called _sliding_window_chunk keeps running
FairSlide == Init /\ [][SlideNext]_vars /\ WF_vars(SlideIter)

\* the worker thread is scheduled and time passes; nothing obliges the user
\* to edit files or to call stop()
SyncFairness ==
    /\ WF_vars(Tick)
    /\ WF_vars(\E initFails \in BOOLEAN : RunBegin(initFails))
    /\ WF_vars(RunLoop)
    /\ WF_vars(ProcessBegin)
    /\ WF_vars(ProcessSelect)
    /\ WF_vars(\E readFails \in BOOLEAN : UpdateBegin(readFails))
    /\ WF_vars(\E deleteFails \in BOOLEAN, addFails \in BOOLEAN : UpdateEnd(deleteFails, addFails))

FairSync == Init /\ [][SyncNext]_vars /\ SyncFairness

(***************************************************************************)
(* Properties of the auto-sync worker.                                     *)
(***************************************************************************)
\* the rows a file should have after an update that read `content`: the
\* chunks of the content; none for a deleted file or one the indexer skips
ExpectedRows(f, content) ==
    IF content.kind = "big" THEN {} ELSE chunk_code(f, content)

\* C1 (replace atomicity): after a per-file update that returned normally,
\* the rows stored for the file are exactly the chunks of the content the
\* update read, and no row of an earlier revision remains.
C1_ReplaceAtomicity ==
    lastUpd.ok => RowsOf(lastUpd.file) = ExpectedRows(lastUpd.file, lastUpd.content)

\* all events queued for f so far fall within a window shorter than debounce
InOneWindow(f) ==
    /\ evFirst[f] >= 0
    /\ evLast[f] - evFirst[f] < AUTO_SYNC_DEBOUNCE_SECONDS

\* C3 (debounce): when all events of a file fall within a window shorter
\* than debounce_seconds, the worker reconciles the file at most once and
\* not before the last event is debounce_seconds old, and, unless stop() is
\* called, it does reconcile it.
C3_Debounce ==
    /\ [](\A f \in Files : InOneWindow(f) => recon[f] <= 1 /\ f \notin reconEarly)
    /\ \A f \in Files :
          (InOneWindow(f) /\ recon[f] = 0)
             ~> (recon[f] >= 1 \/ stopCalled \/ ~InOneWindow(f))

\* C4 (no lost change): an event that no reconciliation has read the file
\* after is still queued in pending_changes, so that a later tick reads the
\* file at a moment no earlier than the event.
C4_NoLostChange ==
    \A f \in Files : dirty[f] => f \in PendingKeys

(***************************************************************************)
(* Properties of the store's writers.                                      *)
(***************************************************************************)
\* C2 (single writer): at no moment are two roles inside a write operation
\* of the same project's store.
C2_SingleWriter == Cardinality(Writing) <= 1

(***************************************************************************)
(* Properties of the indexer pipeline.                                     *)
(***************************************************************************)
Returned == ipc = "returned"

Cancelled == cancelSeenAt >= 0

\* C5 (FTS freshness): whenever index returns with success, the FTS index
\* was rebuilt after the last row was appended, so it covers every row.
C5_FtsFresh == (Returned /\ result.success) => ftsRows = dbRows

C7_CancelCounters == Cancelled => result.total_chunks = dbRows

\* C8 (per-file errors never abort): index always returns a result, and
\* unless it was cancelled or could not start, it has begun every file of
\* the list, with every file that raised an error recorded as failed.
C8_ErrorsDoNotAbort ==
    /\ Returned => (result.success \/ result.error # "")
    /\ \A j \in DOMAIN fileRaised :
          fileRaised[j] => \E s \in DOMAIN fileStatus[j] : fileStatus[j][s] = "failed"
    /\ (Returned /\ ~Cancelled /\ nFiles > 0) => progress = nFiles

\* a run that returned after an error in a file that was not the last one
C8_Witness ==
    /\ Returned /\ ~Cancelled /\ nFiles >= 2
    /\ fileRaised[1]
    /\ progress = nFiles

(***************************************************************************)
(* Properties of the store and of the embedder.                            *)
(***************************************************************************)
\* the embeddings of the call have shape (len(chunks), D)
ShapeOk(call) ==
    /\ Len(call.embeddings) = call.chunks
    /\ \A i \in DOMAIN call.embeddings : call.embeddings[i] = embedding_dim

\* C9 (dimension guard): add_chunks with vectors that do not have shape
\* (len(chunks), D) fails with a hard error and appends no row, and so every
\* persisted row has a vector of length D.
C9_DimensionGuard ==
    /\ (lastAdd.called /\ ~ShapeOk(lastAdd)) => (lastAdd.error # "" /\ lastAdd.appended = 0)
    /\ \A i \in DOMAIN storeVecs : storeVecs[i] = embedding_dim

\* C10 (embedding shape in degraded mode): generate_embeddings of N texts
\* returns N rows, each of the length get_embedding_dim() reports and the
\* store was given, also without a model and when encode fails.
C10_EmbeddingShape ==
    lastEmb.called =>
        /\ Len(lastEmb.out) = lastEmb.texts
        /\ \A i \in DOMAIN lastEmb.out : lastEmb.out[i] = get_embedding_dim(model)
        /\ get_embedding_dim(model) = embedding_dim

(***************************************************************************)
(* Properties of the chunker.                                              *)
(***************************************************************************)
\* C11 (id uniqueness): the chunks chunk_code returns for one file have
\* pairwise distinct start_line, so no two rows of the file share an id
\* "<rel_path>:<start_line>".
C11_IdUnique ==
    chpc = "done" =>
        \A i \in DOMAIN chOut : \A j \in DOMAIN chOut :
            i # j => IdOf("a.py", chOut[i]) # IdOf("a.py", chOut[j])

\* C12 (chunk bounds): every chunk chunk_code returns, in semantic mode, in
\* the splitting of an oversized node and in the sliding window, satisfies
\* 0 <= start_line <= end_line < number of lines of the file.
C12_ChunkBounds ==
    chpc = "done" =>
        \A i \in DOMAIN chOut :
            /\ 0 <= chOut[i].start_line
            /\ chOut[i].start_line <= chOut[i].end_line
            /\ chOut[i].end_line < Len(chLines)

\* a file whose chunks come from all three modes was chunked: one node split
\* at a blank line into several chunks, or a sliding window of several chunks
C12_Witness ==
    /\ chpc = "done"
    /\ Len(chOut) >= 3
    /\ chNodes # <<>>
    /\ \E i \in DOMAIN chOut : chOut[i].start_line > 0 /\ chOut[i].end_line = Len(chLines) - 1

(***************************************************************************)
(* Further properties of the auto-sync worker.                             *)
(***************************************************************************)
\* the worker thread is inside run()
WorkerRunning == wpc \notin {"idle", "exited", "crashed"}

\* C13 (stop liveness): after stop() the worker eventually leaves its tick
\* loop, however stop() interleaves with the start-up of the thread, and
\* stop() is the only transition out of running.
C13_StopLiveness ==
    /\ stopCalled ~> ~WorkerRunning
    /\ [][(WorkerRunning /\ ~WorkerRunning') => stopCalled]_vars

\* C14 (no half-updated file on error): after a per-file update in which a
\* step failed, the rows stored for the file are exactly the prior set or
\* exactly the new set, and the failure was reported as an error.
C14_NoHalfUpdate ==
    lastUpd.failed =>
        /\ ~lastUpd.ok
        /\ \/ RowsOf(lastUpd.file) = lastUpd.before
           \/ RowsOf(lastUpd.file) = ExpectedRows(lastUpd.file, lastUpd.content)

\* C17 (stop granularity): once stop() has been called no further file is
\* taken, from the pending set or from the batch of the current tick; only
\* the update in flight runs to its end.
C17_StopGranularity ==
    [][stopCalled => recon' = recon]_vars

\* C18 (watcher release): whenever run() has ended, by stop() or by an
\* exception that escaped the tick loop, the observer has been stopped.
C18_WatcherRelease ==
    wpc \in {"exited", "crashed"} => observer # "started"

\* C19 (batch bound and fairness): a tick takes at most batch_size of the
\* stable entries; an entry leaves pending only when its own update ends; and
\* while the worker keeps running every pending entry is reconciled in some
\* tick.
C19_BatchFair ==
    /\ [](Len(batch) <= batch_size)
    /\ [][\A f \in PendingKeys : f \in PendingKeys' \/ (wpc = "write" /\ Head(batch).file = f)]_vars
    /\ \A f \in Files : (f \in PendingKeys) ~> (f \notin PendingKeys \/ ~WorkerRunning)

\* a tick found more stable entries than batch_size and took only a batch
C19_Witness ==
    /\ wpc = "batch"
    /\ Len(batch) = batch_size
    /\ Len(ReadyFiles) > batch_size

(***************************************************************************)
(* Further properties of the writers.                                      *)
(***************************************************************************)
\* C16 (per-file replace is one critical section): in a file update the
\* add_chunks comes after the delete_by_file, and when it is called the
\* worker still holds the writer lock it deleted under and no other role is
\* inside a write of the store.
C16_ReplaceCritical ==
    /\ [](wop["autosync"] = "add_chunks" => upd = "add")
    /\ [][(upd = "deleted" /\ upd' = "add") =>
            /\ rlock[LockOf("autosync")] = "autosync"
            /\ Writing \subseteq {"autosync"}]_vars

(***************************************************************************)
(* Properties of search requests.                                          *)
(***************************************************************************)
\* C15 (input errors have no side effects): a request with a blank query,
\* an invalid mode or a limit <= 0 opens no store, loads no model and runs no
\* search, and ends in a ValueError; and the engine never runs a search of
\* another mode than the one requested.
C15_InputErrors ==
    /\ (sreq.entry # "none" /\ ~ParamsOk(sreq)) =>
          /\ ~sOpened /\ ~sLoaded /\ sRan = "none"
          /\ spc = "done" => sOutcome = "ValueError"
    /\ sRan # "none" => sRan = sreq.mode

(***************************************************************************)
(* Properties of the file filters.                                         *)
(***************************************************************************)
\* C20 (filter agreement): for every path under the project root, the
\* worker queues an event for the path if and only if the walker enumerates
\* the path.
C20_FilterAgreement ==
    (fQueued # "none" /\ fWalked # "none") => fQueued = fWalked

(***************************************************************************)
(* Properties of the sliding window.                                       *)
(***************************************************************************)
\* the stepwise loop returns what the operator _sliding_window_chunk gives
SlideAgrees ==
    swpc = "done" =>
        swOut = _sliding_window_chunk(swLines, swSize, swOverlap, swOffset)

\* C24 (sliding-window termination): the loop of _sliding_window_chunk ends
\* for every content, chunk_size and overlap; the start lines of its windows
\* are strictly increasing; and the loop stops with the window after which
\* the next start is not greater than the start of that window.
C24_SlideTerminates ==
    /\ (swpc = "loop") ~> (swpc = "done")
    /\ [](\A k \in 1..(Len(swOut) - 1) : swOut[k].start_line < swOut[k + 1].start_line)
    /\ [][(Len(swOut') > Len(swOut) /\ swI' <= swI) => swpc' = "done"]_vars
    /\ [][swpc = "done" => (swpc' = "done" /\ swOut' = swOut)]_vars

\* a window was cut with overlap_lines >= lines_per_chunk and the loop ended
C24_Witness ==
    /\ swpc = "done"
    /\ overlap_lines_of(swLines, swOverlap) >= lines_per_chunk_of(swLines, swSize)
    /\ Len(swLines) > lines_per_chunk_of(swLines, swSize)
    /\ Len(swOut) = 1

\* C30 (sliding-window coverage): the chunks _sliding_window_chunk returns
\* cover every line of the content, with no gap between consecutive windows.
C30_SlideCovers ==
    swpc = "done" =>
        /\ \A l \in 0..(Len(swLines) - 1) :
              \E k \in 1..Len(swOut) :
                  swOut[k].start_line - swOffset <= l /\ l <= swOut[k].end_line - swOffset
        /\ \A k \in 1..(Len(swOut) - 1) : swOut[k + 1].start_line <= swOut[k].end_line + 1

(***************************************************************************)
(* Further properties of the auto-sync worker.                             *)
(***************************************************************************)
\* C26 (pending map is race-free): an event delivered by the watcher thread
\* while the worker selects or processes pending entries never makes the
\* tick fail, and a worker that has entered its loop leaves it only after
\* stop() was called.
C26_PendingRaceFree ==
    /\ [][(wpc \in {"process", "iter", "batch", "write"}) => (wpc' # "crashed")]_vars
    /\ [][(wpc = "loop" /\ wpc' \in {"exited", "crashed"}) => stopCalled]_vars

\* C28 (auto-sync agrees with a full index): after the worker has reconciled
\* a file that exists, the rows stored for the file are the ones a full
\* index of the tree would store for it; a file larger than max_file_size
\* has no rows left.  Stated for the updates none of whose store calls
\* failed.
C28_AgreesWithFullIndex ==
    (lastUpd.ok /\ ~lastUpd.failed /\ ~IsAbsent(lastUpd.content)) =>
        /\ lastUpd.content.kind = "big" => RowsOf(lastUpd.file) = {}
        /\ lastUpd.content.kind = "code" =>
              RowsOf(lastUpd.file) = chunk_code(lastUpd.file, lastUpd.content)

(***************************************************************************)
(* Further properties of CoreIndexer.index.                                *)
(***************************************************************************)
\* C27 (exactly one status per file): every file the run has handled was
\* reported by one on_file_processed call, and when a run that was not
\* cancelled has returned, the indexed, failed and skipped counts add up to
\* total_files.
C27_OneStatusPerFile ==
    /\ \A j \in DOMAIN fileStatus : Len(fileStatus[j]) = 1
    /\ (Returned /\ ~Cancelled) =>
          result.indexed_files_count + result.failed_files_count
              + result.skipped_files_count = result.total_files

(***************************************************************************)
(* Properties of hybrid search.                                            *)
(***************************************************************************)
\* C23 (hybrid fetch size): for every limit >= 1, hybrid search requests
\* ceil(1.5 * limit) results from the vector and from the keyword search.
C23_FetchSize ==
    (hpc # "idle" /\ hLimit >= 1) => 2 * hFetch >= 3 * hLimit /\ 2 * hFetch < 3 * hLimit + 2

\* the rank of d in a list; past the end when the list does not have it
RankIn(d, list) ==
    IF \E i \in DOMAIN list : list[i] = d
    THEN CHOOSE i \in DOMAIN list : list[i] = d
    ELSE MaxDocs + 1

\* a comes before b: higher score, or the same score and the better rank
\* in the vector list, then in the keyword list
Precedes(a, b) ==
    LET sa == ScoreOf(a, hVec, hKey, hBoost, hK)
        sb == ScoreOf(b, hVec, hKey, hBoost, hK)
    IN  \/ sa > sb
        \/ /\ sa = sb
           /\ \/ RankIn(a, hVec) < RankIn(b, hVec)
              \/ RankIn(a, hVec) = RankIn(b, hVec) /\ RankIn(a, hKey) < RankIn(b, hKey)

FusedDocs == {hVec[i] : i \in DOMAIN hVec} \cup {hKey[i] : i \in DOMAIN hKey}

Reranked == rEnabled /\ rAvailable /\ ~rFails

\* C22 (re-rank is a prefix permutation): rerank returns a permutation of
\* its input; when re-ranking is disabled, the model is unavailable or
\* scoring fails it returns the input in its order; otherwise the first
\* min(rerank_top_k, len(results)) entries are in the order of non-increasing
\* cross-encoder score and every later entry keeps its position.
C22_PrefixPermutation ==
    rpc = "done" =>
        /\ Len(rOut) = Len(rResults)
        /\ \A i \in DOMAIN rResults : \E j \in DOMAIN rOut : rOut[j] = rResults[i]
        /\ ~Reranked => rOut = rResults
        /\ Reranked =>
              LET k == Min(rTopK, Len(rResults))
              IN  /\ \A i \in 1..k : \A j \in 1..k :
                        i < j => rScores[rOut[i]] >= rScores[rOut[j]]
                  /\ \A i \in (k + 1)..Len(rResults) : rOut[i] = rResults[i]

\* a call that re-ordered a proper prefix of a list
C22_Witness ==
    /\ rpc = "done" /\ Reranked
    /\ Min(rTopK, Len(rResults)) < Len(rResults)
    /\ rOut # rResults

(***************************************************************************)
(* Opening the store to read it                                            *)
(***************************************************************************)
\* C25: an open of the store for search or stats (create_search_engine,
\* StatsManager, the CLI handler) never drops the table and never removes a
\* persisted row, whatever the default dimension is relative to the one
\* the project was indexed with.
C25_ReadOnlyOpen ==
    lastOpen.called =>
        /\ ~lastOpen.dropped
        /\ lastOpen.after.rows = lastOpen.before.rows
        /\ (lastOpen.before.dim # 0 => lastOpen.after.dim = lastOpen.before.dim)

(***************************************************************************)
(* The auto-sync worker of the main window                                 *)
(***************************************************************************)
\* C29: whatever the sequence of GUI actions, at most one AutoSyncWorker
\* thread runs at any time, and a worker the window does not reference is
\* not running.
C29_OneWorker ==
    /\ Cardinality(gWorker.running) <= 1
    /\ gWorker.running \subseteq {gWorker.ref}

====
